---- MODULE Spec2Model ----
(***************************************************************************)
(* Reachability of 1-safe Petri nets (reachability.py).                    *)
(*                                                                         *)
(*   find_reachable_markings_bfs  -- the explicit BFS over markings,       *)
(*                                   modelled statement by statement       *)
(*   convert_net_to_bfs_format    -- the adapter from the parsed net to    *)
(*                                   the (initial marking, table) pair     *)
(*                                                                         *)
(* A caller invokes the engine once on an arbitrary input and then once    *)
(* more on a related input (the same input, a permuted table, a table      *)
(* with one transition removed, or with an arbitrary worklist pick), so    *)
(* that relational properties of the function are state properties.        *)
(***************************************************************************)
EXTENDS Integers, Sequences, FiniteSets

\* ------------------------------------------------------------------ bounds
\* a table has at most MaxTrans transitions and at most MaxArcs places in
\* all its pre and post sets together
MaxTrans == 2
MaxArcs == 3

TransNames == <<"t1", "t2", "t3", "t4", "t5", "t6">>

\* the place identifiers an input may use
Places == {"p1", "p2", "p3"}
Markings == SUBSET Places

\* a marking variable that no statement has assigned yet, and likewise a
\* variable for a set of markings
Unbound == {"<unbound>"}
NoResult == {}

VARIABLES
    start_marking,      \* argument: set of place ids
    all_transitions,    \* argument: the dict's items in iteration order
    visited,            \* local: set of markings
    queue,              \* local: deque of markings
    current_marking,    \* local: the marking popped at line 72
    idx,                \* position of the for loop in all_transitions.items()
    next_marking,       \* local: the successor computed at line 85
    pc,                 \* position in find_reachable_markings_bfs
    variant,            \* caller: which call of the engine this is
    first_result,       \* caller: the set returned by the first call
    removed,            \* caller: the record taken out of the table, if any
    net_places,         \* net.places: place id -> Place
    net_transitions,    \* net.transitions: its keys in iteration order
    net_arcs,           \* net.arcs: list of Arc
    initial_marking_set,\* adapter local
    transitions_dict,   \* adapter local: the dict's items in insertion order
    arc_i,              \* position of the adapter's for loop in net.arcs
    apc,                \* position in convert_net_to_bfs_format
    ad_variant,         \* caller: which call of the adapter this is
    ad_first,           \* caller: the pair returned by the first call
    ad_dropped,         \* caller: the arc left out of the second call, if any
    mpc,                \* position in the script (module level and main)
    argv_len,           \* len(sys.argv)
    parser_found,       \* whether import pnml_parser succeeds
    parse_outcome,      \* what parse_pnml did, once it has been called
    exit_code,          \* the process's exit status, -1 while it runs
    printed             \* what has been printed, in order

engineVars == <<start_marking, all_transitions, visited, queue,
                current_marking, idx, next_marking, pc, variant, first_result,
                removed>>

adapterVars == <<net_places, net_transitions, net_arcs, initial_marking_set,
                 transitions_dict, arc_i, apc, ad_variant, ad_first,
                 ad_dropped>>

mainVars == <<mpc, argv_len, parser_found, parse_outcome, exit_code, printed>>

vars == <<engineVars, adapterVars, mainVars>>

\* ------------------------------------------------------- input generation
TRecs == [pre : Markings, post : Markings]

RECURSIVE ArcCount(_)
ArcCount(tbl) ==
    IF tbl = <<>> THEN 0
    ELSE Cardinality(Head(tbl).pre) + Cardinality(Head(tbl).post)
         + ArcCount(Tail(tbl))

WithIds(f) == [i \in DOMAIN f |->
                 [id |-> TransNames[i], pre |-> f[i].pre, post |-> f[i].post]]

Tables == {WithIds(f) :
             f \in {g \in UNION {[1..n -> TRecs] : n \in 0..MaxTrans} :
                      ArcCount(g) <= MaxArcs}}

\* ------------------------------------------------------------- the engine
\* faults of the enabling test: an empty precondition counts as disabled;
\* one precondition place suffices
IsEnabledNonEmpty(pre_set, marking) == pre_set # {} /\ pre_set \subseteq marking

IsEnabledAnyPlace(pre_set, marking) ==
    pre_set = {} \/ pre_set \cap marking # {}

\* line 80: pre_set.issubset(current_marking)
IsEnabled(pre_set, marking) == pre_set \subseteq marking

\* faults of the firing rule: tokens are not consumed; tokens are produced
\* before they are consumed; the precondition is complemented over the whole
\* place universe (a bitmask current | ~pre | post)
NextMarkingKeepPre(marking, pre_set, post_set) == marking \cup post_set

NextMarkingAddFirst(marking, pre_set, post_set) ==
    (marking \cup post_set) \ pre_set

NextMarkingComplement(marking, pre_set, post_set) ==
    (marking \cup (Places \ pre_set)) \cup post_set

\* lines 83-85
NextMarking(marking, pre_set, post_set) == (marking \ pre_set) \cup post_set

\* fault of the dedup test: the test is missing, every successor is recorded
\* and queued
IsNewAlways(marking, seen) == TRUE

\* line 88: next_marking not in visited
IsNew(marking, seen) == marking \notin seen

\* fault of the recording: visited is assigned instead of added to
RecordedAlone(seen, marking) == {marking}

\* line 89: visited.add(next_marking)
Recorded(seen, marking) == seen \cup {marking}

\* fault of the firing: the postcondition set is updated in place
\* (post_set |= temp_marking)
TableAfterFireInPlace(tbl, i, marking) ==
    [tbl EXCEPT ![i].post = @ \cup (marking \ tbl[i].pre)]

\* lines 83-84: - and | build new sets, the table's sets stay as they are
TableAfterFire(tbl, i, marking) == tbl

\* fault of the for loop: it is left after its first item
AfterItemBreak(i, n) == n + 1

\* line 74: the for loop moves on to the next item of the table
AfterItem(i, n) == i + 1

\* which element of the deque line 72 takes; the code is "fifo" (popleft),
\* "any" is the engine with popleft replaced by an arbitrary pick
Discipline == IF variant = "any" THEN "any" ELSE "fifo"

\* fault of the dequeue: pop() takes the newest pending marking
PopChoicesNewest(q, d) == {Len(q)}

PopChoices(q, d) == IF d = "fifo" THEN {1} ELSE 1..Len(q)

\* faults of the dequeue: the element is read but left in the deque; a second
\* popleft discards the next pending marking
PopRestPeek(q, k) == q

PopRestTwice(q, k) ==
    LET r == SubSeq(q, 1, k - 1) \o SubSeq(q, k + 1, Len(q))
    IN  IF r = <<>> THEN r ELSE Tail(r)

\* line 72: the deque after the element at position k has been taken out
PopRest(q, k) == SubSeq(q, 1, k - 1) \o SubSeq(q, k + 1, Len(q))

\* fault of the entry: line 68 is missing, the initial state is queued but
\* not recorded
EnterNoVisit(sm, tbl, v) ==
    /\ start_marking' = sm
    /\ all_transitions' = tbl
    /\ variant' = v
    /\ visited' = {}
    /\ queue' = <<sm>>
    /\ current_marking' = Unbound
    /\ next_marking' = Unbound
    /\ idx' = 0
    /\ pc' = "while"

\* fault of the entry: visited and queue live at module level and are not
\* created anew by a call
EnterStale(sm, tbl, v) ==
    /\ start_marking' = sm
    /\ all_transitions' = tbl
    /\ variant' = v
    /\ visited' = visited \cup {sm}
    /\ queue' = Append(queue, sm)
    /\ current_marking' = Unbound
    /\ next_marking' = Unbound
    /\ idx' = 0
    /\ pc' = "while"

\* lines 63-69 on the given arguments
Enter(sm, tbl, v) ==
    /\ start_marking' = sm
    /\ all_transitions' = tbl
    /\ variant' = v
    /\ visited' = {sm}
    /\ queue' = <<sm>>
    /\ current_marking' = Unbound
    /\ next_marking' = Unbound
    /\ idx' = 0
    /\ pc' = "while"

\* no net is being converted
AdapterIdle ==
    /\ net_places = <<>>
    /\ net_transitions = <<>>
    /\ net_arcs = <<>>
    /\ initial_marking_set = Unbound
    /\ transitions_dict = <<>>
    /\ arc_i = 0
    /\ apc = "idle"
    /\ ad_variant = "first"
    /\ ad_first = <<>>
    /\ ad_dropped = <<>>

\* the script is not being run
MainIdle ==
    /\ mpc = "idle"
    /\ argv_len = 0
    /\ parser_found = TRUE
    /\ parse_outcome = "none"
    /\ exit_code = -1
    /\ printed = <<>>

Init ==
    /\ AdapterIdle
    /\ MainIdle
    /\ start_marking \in Markings
    /\ all_transitions \in Tables
    /\ visited = NoResult
    /\ queue = <<>>
    /\ current_marking = Unbound
    /\ next_marking = Unbound
    /\ idx = 0
    /\ pc = "call"
    /\ variant = "first"
    /\ first_result = NoResult
    /\ removed = <<>>

\* first call of the engine
Call ==
    /\ UNCHANGED <<adapterVars, mainVars>>
    /\ pc = "call"
    /\ Enter(start_marking, all_transitions, "first")
    /\ UNCHANGED <<first_result, removed>>

\* line 71 (queue non-empty), line 72, line 74 (iterator created)
Dequeue ==
    /\ UNCHANGED <<adapterVars, mainVars>>
    /\ pc = "while"
    /\ queue # <<>>
    /\ \E k \in PopChoices(queue, Discipline) :
         /\ current_marking' = queue[k]
         /\ queue' = PopRest(queue, k)
    /\ idx' = 1
    /\ pc' = "for"
    /\ UNCHANGED <<start_marking, all_transitions, visited, next_marking,
                   variant, first_result, removed>>

\* line 74-80: next item of the table, transition not enabled
Skip ==
    /\ UNCHANGED <<adapterVars, mainVars>>
    /\ pc = "for"
    /\ idx <= Len(all_transitions)
    /\ ~IsEnabled(all_transitions[idx].pre, current_marking)
    /\ idx' = AfterItem(idx, Len(all_transitions))
    /\ UNCHANGED <<start_marking, all_transitions, visited, queue,
                   current_marking, next_marking, pc, variant, first_result,
                   removed>>

\* line 74-85: next item of the table, transition enabled and fired
Fire ==
    /\ UNCHANGED <<adapterVars, mainVars>>
    /\ pc = "for"
    /\ idx <= Len(all_transitions)
    /\ IsEnabled(all_transitions[idx].pre, current_marking)
    /\ next_marking' = NextMarking(current_marking, all_transitions[idx].pre,
                                   all_transitions[idx].post)
    /\ all_transitions' = TableAfterFire(all_transitions, idx, current_marking)
    /\ pc' = "dedup"
    /\ UNCHANGED <<start_marking, visited, queue, current_marking, idx,
                   variant, first_result, removed>>

\* lines 88-90: the successor has not been seen
DedupNew ==
    /\ UNCHANGED <<adapterVars, mainVars>>
    /\ pc = "dedup"
    /\ IsNew(next_marking, visited)
    /\ visited' = Recorded(visited, next_marking)
    /\ queue' = Append(queue, next_marking)
    /\ idx' = AfterItem(idx, Len(all_transitions))
    /\ pc' = "for"
    /\ UNCHANGED <<start_marking, all_transitions, current_marking,
                   next_marking, variant, first_result, removed>>

\* line 88 false: the successor is already in visited
DedupSeen ==
    /\ UNCHANGED <<adapterVars, mainVars>>
    /\ pc = "dedup"
    /\ ~IsNew(next_marking, visited)
    /\ idx' = AfterItem(idx, Len(all_transitions))
    /\ pc' = "for"
    /\ UNCHANGED <<start_marking, all_transitions, visited, queue,
                   current_marking, next_marking, variant, first_result,
                   removed>>

\* line 74: the table's items are exhausted, back to line 71
EndFor ==
    /\ UNCHANGED <<adapterVars, mainVars>>
    /\ pc = "for"
    /\ idx > Len(all_transitions)
    /\ pc' = "while"
    /\ UNCHANGED <<start_marking, all_transitions, visited, queue,
                   current_marking, idx, next_marking, variant, first_result,
                   removed>>

\* line 71 (queue empty), line 92
Return ==
    /\ UNCHANGED <<adapterVars, mainVars>>
    /\ pc = "while"
    /\ queue = <<>>
    /\ pc' = "done"
    /\ UNCHANGED <<start_marking, all_transitions, visited, queue,
                   current_marking, idx, next_marking, variant, first_result,
                   removed>>

\* ------------------------------------------------------------- the caller
Orders(n) == {f \in [1..n -> 1..n] : \A i, j \in 1..n : i # j => f[i] # f[j]}

Permuted(tbl, f) == [i \in DOMAIN tbl |-> tbl[f[i]]]

Without(tbl, i) == SubSeq(tbl, 1, i - 1) \o SubSeq(tbl, i + 1, Len(tbl))

FirstDone == pc = "done" /\ variant = "first"

\* the same input once more
CallSame ==
    /\ UNCHANGED <<adapterVars, mainVars>>
    /\ FirstDone
    /\ first_result' = visited
    /\ removed' = removed
    /\ Enter(start_marking, all_transitions, "same")

\* the same table, its items in another order
CallPermuted ==
    /\ UNCHANGED <<adapterVars, mainVars>>
    /\ FirstDone
    /\ first_result' = visited
    /\ removed' = removed
    /\ \E f \in Orders(Len(all_transitions)) :
         /\ Permuted(all_transitions, f) # all_transitions
         /\ Enter(start_marking, Permuted(all_transitions, f), "permuted")

\* the same input, the pending marking to expand picked anywhere in the deque
CallWorklist ==
    /\ UNCHANGED <<adapterVars, mainVars>>
    /\ FirstDone
    /\ first_result' = visited
    /\ removed' = removed
    /\ Enter(start_marking, all_transitions, "any")

\* the table without one of its transitions
CallRemoved ==
    /\ UNCHANGED <<adapterVars, mainVars>>
    /\ FirstDone
    /\ first_result' = visited
    /\ \E i \in 1..Len(all_transitions) :
         /\ removed' = <<all_transitions[i]>>
         /\ Enter(start_marking, Without(all_transitions, i), "removed")

Next ==
    \/ Call
    \/ Dequeue
    \/ Skip
    \/ Fire
    \/ DedupNew
    \/ DedupSeen
    \/ EndFor
    \/ Return
    \/ CallSame
    \/ CallPermuted
    \/ CallWorklist
    \/ CallRemoved

Spec == Init /\ [][Next]_vars

\* one call of the engine, from entry to return
Run ==
    \/ Call
    \/ Dequeue
    \/ Skip
    \/ Fire
    \/ DedupNew
    \/ DedupSeen
    \/ EndFor
    \/ Return

\* the engine is sequential and never blocks: a step that can be taken is taken
FairSpec == Init /\ [][Run]_vars /\ WF_vars(Run)

\* one call of the engine on an arbitrary input, and nothing after it
RunSpec == Init /\ [][Run]_vars

\* one call of the engine and then one kind of second call
NextSame == Run \/ CallSame

SpecSame == Init /\ [][NextSame]_vars

NextPermuted == Run \/ CallPermuted

SpecPermuted == Init /\ [][NextPermuted]_vars

NextWorklist == Run \/ CallWorklist

SpecWorklist == Init /\ [][NextWorklist]_vars

NextRemoved == Run \/ CallRemoved

SpecRemoved == Init /\ [][NextRemoved]_vars

\* ------------------------------------------------------------ the adapter
\* a net has at most MaxNetArcs arcs
MaxNetArcs == 2

\* the identifiers a net may use; one that the net does not declare as a place
\* or as a transition is unknown to it
DeclaredPlaceSets == {{}, {"p1"}, {"p1", "p2"}}
DeclaredTransitionLists == {<<>>, <<"t1">>, <<"t1", "t2">>}
ArcEnds == {"p1", "p2", "t1", "t2"}
TokenCounts == {0, 1, 2}

\* net.places: id -> Place(id, initial_marking)
PlaceDicts ==
    UNION {{[p \in D |-> [id |-> p, initial_marking |-> c[p]]] :
              c \in [D -> TokenCounts]} : D \in DeclaredPlaceSets}

ArcLists ==
    UNION {[1..n -> [source : ArcEnds, target : ArcEnds]] : n \in 0..MaxNetArcs}

\* no call of the engine is under way
EngineIdle ==
    /\ start_marking = {}
    /\ all_transitions = <<>>
    /\ visited = NoResult
    /\ queue = <<>>
    /\ current_marking = Unbound
    /\ next_marking = Unbound
    /\ idx = 0
    /\ pc = "idle"
    /\ variant = "first"
    /\ first_result = NoResult
    /\ removed = <<>>

InitAdapter ==
    /\ EngineIdle
    /\ MainIdle
    /\ net_places \in PlaceDicts
    /\ net_transitions \in DeclaredTransitionLists
    /\ net_arcs \in ArcLists
    /\ initial_marking_set = Unbound
    /\ transitions_dict = <<>>
    /\ arc_i = 0
    /\ apc = "convert"
    /\ ad_variant = "first"
    /\ ad_first = <<>>
    /\ ad_dropped = <<>>

\* fault of the initial marking: only a count of exactly one marks a place
MarkedInitiallyExactlyOne(place) == place.initial_marking = 1

\* line 23: p.initial_marking > 0
MarkedInitially(place) == place.initial_marking > 0

\* lines 37 and 41: source_id in net.places, target_id in net.transitions
InPlaces(id) == id \in DOMAIN net_places

InTransitions(id) == \E i \in DOMAIN net_transitions : net_transitions[i] = id

\* fault of the first test: the target is not looked at
ArcIsInputBySource(source_id, target_id) == InPlaces(source_id)

\* line 37
ArcIsInput(source_id, target_id) ==
    InPlaces(source_id) /\ InTransitions(target_id)

\* line 41
ArcIsOutput(source_id, target_id) ==
    InTransitions(source_id) /\ InPlaces(target_id)

\* lines 38 and 42: transitions_dict[t_id][side].add(place_id); a key the
\* dict does not hold raises KeyError
HasKey(dict, t_id) == \E i \in DOMAIN dict : dict[i].id = t_id

Added(dict, t_id, side, place_id) ==
    [i \in DOMAIN dict |->
        IF dict[i].id = t_id
        THEN [dict[i] EXCEPT ![side] = @ \cup {place_id}]
        ELSE dict[i]]

\* the arc the adapter's for loop is at
Arc == net_arcs[arc_i]

\* fault of the scan of the places: the tokens read are taken off the places
PlacesAfterScanEmptied(places) ==
    [p \in DOMAIN places |-> [places[p] EXCEPT !.initial_marking = 0]]

\* lines 22-24: the comprehension reads p.id and p.initial_marking only
PlacesAfterScan(places) == places

\* lines 22-30, and the for loop of line 32 is entered
AdStart ==
    /\ apc = "convert"
    /\ initial_marking_set' =
           {net_places[k].id :
              k \in {j \in DOMAIN net_places : MarkedInitially(net_places[j])}}
    /\ transitions_dict' =
           [i \in DOMAIN net_transitions |->
               [id |-> net_transitions[i], pre |-> {}, post |-> {}]]
    /\ net_places' = PlacesAfterScan(net_places)
    /\ arc_i' = 1
    /\ apc' = "arcs"
    /\ UNCHANGED <<net_transitions, net_arcs, ad_variant, ad_first,
                   ad_dropped>>
    /\ UNCHANGED <<engineVars, mainVars>>

\* lines 32-38: an arc from a place to a transition
AdArcPre ==
    /\ apc = "arcs"
    /\ arc_i <= Len(net_arcs)
    /\ ArcIsInput(Arc.source, Arc.target)
    /\ IF HasKey(transitions_dict, Arc.target)
       THEN /\ transitions_dict' =
                   Added(transitions_dict, Arc.target, "pre", Arc.source)
            /\ arc_i' = arc_i + 1
            /\ apc' = apc
       ELSE /\ apc' = "KeyError"
            /\ UNCHANGED <<transitions_dict, arc_i>>
    /\ UNCHANGED <<net_places, net_transitions, net_arcs,
                   initial_marking_set, ad_variant, ad_first, ad_dropped>>
    /\ UNCHANGED <<engineVars, mainVars>>

\* lines 32-42: an arc from a transition to a place
AdArcPost ==
    /\ apc = "arcs"
    /\ arc_i <= Len(net_arcs)
    /\ ~ArcIsInput(Arc.source, Arc.target)
    /\ ArcIsOutput(Arc.source, Arc.target)
    /\ IF HasKey(transitions_dict, Arc.source)
       THEN /\ transitions_dict' =
                   Added(transitions_dict, Arc.source, "post", Arc.target)
            /\ arc_i' = arc_i + 1
            /\ apc' = apc
       ELSE /\ apc' = "KeyError"
            /\ UNCHANGED <<transitions_dict, arc_i>>
    /\ UNCHANGED <<net_places, net_transitions, net_arcs,
                   initial_marking_set, ad_variant, ad_first, ad_dropped>>
    /\ UNCHANGED <<engineVars, mainVars>>

\* lines 32-41: both tests fail, the loop moves on
AdArcIgnore ==
    /\ apc = "arcs"
    /\ arc_i <= Len(net_arcs)
    /\ ~ArcIsInput(Arc.source, Arc.target)
    /\ ~ArcIsOutput(Arc.source, Arc.target)
    /\ arc_i' = arc_i + 1
    /\ UNCHANGED <<net_places, net_transitions, net_arcs,
                   initial_marking_set, transitions_dict, apc, ad_variant,
                   ad_first, ad_dropped>>
    /\ UNCHANGED <<engineVars, mainVars>>

\* line 32 (arcs exhausted), line 44
AdReturn ==
    /\ apc = "arcs"
    /\ arc_i > Len(net_arcs)
    /\ apc' = "returned"
    /\ UNCHANGED <<net_places, net_transitions, net_arcs,
                   initial_marking_set, transitions_dict, arc_i, ad_variant,
                   ad_first, ad_dropped>>
    /\ UNCHANGED <<engineVars, mainVars>>

\* an arc from a declared place to a declared transition or the other way round
Connects(arc) ==
    \/ arc.source \in DOMAIN net_places /\
         arc.target \in {net_transitions[i] : i \in DOMAIN net_transitions}
    \/ arc.target \in DOMAIN net_places /\
         arc.source \in {net_transitions[i] : i \in DOMAIN net_transitions}

\* the caller converts the same net once more, without one of the arcs that
\* connect nothing
AdCallWithout ==
    /\ apc = "returned"
    /\ ad_variant = "first"
    /\ \E i \in DOMAIN net_arcs :
         /\ ~Connects(net_arcs[i])
         /\ ad_dropped' = <<net_arcs[i]>>
         /\ net_arcs' = Without(net_arcs, i)
    /\ ad_first' = <<initial_marking_set, transitions_dict>>
    /\ ad_variant' = "without"
    /\ initial_marking_set' = Unbound
    /\ transitions_dict' = <<>>
    /\ arc_i' = 0
    /\ apc' = "convert"
    /\ UNCHANGED <<net_places, net_transitions>>
    /\ UNCHANGED <<engineVars, mainVars>>

NextAdapter ==
    \/ AdStart
    \/ AdArcPre
    \/ AdArcPost
    \/ AdArcIgnore
    \/ AdReturn
    \/ AdCallWithout

SpecAdapter == InitAdapter /\ [][NextAdapter]_vars

\* -------------------------------------------------------------- the script
\* the command line has at most MaxArgv words, the script's name included
MaxArgv == 3

\* line 97: the length of sys.argv that main accepts
UsageArgc == 2

\* fault of the usage test: extra arguments are let through
UsageOKAtLeast(n) == n >= UsageArgc

\* line 97: not (len(sys.argv) != 2)
UsageOK(n) == n = UsageArgc

\* what parse_pnml may do: return a net, raise PNMLParserError, or raise
\* another exception, which nothing catches
ParseOutcomes == {"ok", "PNMLParserError", "uncaught"}

InitMain ==
    /\ EngineIdle
    /\ AdapterIdle
    /\ mpc = "import"
    /\ argv_len \in 1..MaxArgv
    /\ parser_found \in BOOLEAN
    /\ parse_outcome = "none"
    /\ exit_code = -1
    /\ printed = <<>>

\* lines 5-6 succeed; lines 127-128 call main
ImportOK ==
    /\ mpc = "import"
    /\ parser_found
    /\ mpc' = "main"
    /\ UNCHANGED <<argv_len, parser_found, parse_outcome, exit_code, printed>>
    /\ UNCHANGED <<engineVars, adapterVars>>

\* lines 7-10
ImportFails ==
    /\ mpc = "import"
    /\ ~parser_found
    /\ printed' = Append(printed, "import-error")
    /\ exit_code' = 1
    /\ mpc' = "exit"
    /\ UNCHANGED <<argv_len, parser_found, parse_outcome>>
    /\ UNCHANGED <<engineVars, adapterVars>>

\* lines 97-100
UsageError ==
    /\ mpc = "main"
    /\ ~UsageOK(argv_len)
    /\ printed' = Append(printed, "usage")
    /\ exit_code' = 1
    /\ mpc' = "exit"
    /\ UNCHANGED <<argv_len, parser_found, parse_outcome>>
    /\ UNCHANGED <<engineVars, adapterVars>>

\* line 97 false, lines 102-104
StartParsing ==
    /\ mpc = "main"
    /\ UsageOK(argv_len)
    /\ printed' = Append(printed, "parsing")
    /\ mpc' = "parse"
    /\ UNCHANGED <<argv_len, parser_found, parse_outcome, exit_code>>
    /\ UNCHANGED <<engineVars, adapterVars>>

\* lines 106, 111: parse_pnml returns a net
ParseOK ==
    /\ mpc = "parse"
    /\ parse_outcome' = "ok"
    /\ net_places' \in PlaceDicts
    /\ net_transitions' \in DeclaredTransitionLists
    /\ net_arcs' \in ArcLists
    /\ printed' = Append(printed, "complete")
    /\ mpc' = "convert"
    /\ UNCHANGED <<argv_len, parser_found, exit_code>>
    /\ UNCHANGED <<initial_marking_set, transitions_dict, arc_i, apc,
                   ad_variant, ad_first, ad_dropped>>
    /\ UNCHANGED engineVars

\* lines 106-109: parse_pnml raises PNMLParserError
ParseFails ==
    /\ mpc = "parse"
    /\ parse_outcome' = "PNMLParserError"
    /\ printed' = Append(printed, "parse-error")
    /\ exit_code' = 1
    /\ mpc' = "exit"
    /\ UNCHANGED <<argv_len, parser_found>>
    /\ UNCHANGED <<engineVars, adapterVars>>

\* line 106: parse_pnml raises something else; the interpreter prints the
\* traceback and exits with status 1
ParseRaises ==
    /\ mpc = "parse"
    /\ parse_outcome' = "uncaught"
    /\ printed' = Append(printed, "traceback")
    /\ exit_code' = 1
    /\ mpc' = "exit"
    /\ UNCHANGED <<argv_len, parser_found>>
    /\ UNCHANGED <<engineVars, adapterVars>>

\* line 113: the adapter is called
MainConvert ==
    /\ mpc = "convert"
    /\ apc = "idle"
    /\ apc' = "convert"
    /\ UNCHANGED <<net_places, net_transitions, net_arcs,
                   initial_marking_set, transitions_dict, arc_i, ad_variant,
                   ad_first, ad_dropped>>
    /\ UNCHANGED <<engineVars, mainVars>>

\* lines 113-116: the adapter has returned, the engine is called on its pair
MainSearch ==
    /\ mpc = "convert"
    /\ apc = "returned"
    /\ start_marking' = initial_marking_set
    /\ all_transitions' = transitions_dict
    /\ pc' = "call"
    /\ printed' = Append(printed, "starting")
    /\ mpc' = "search"
    /\ UNCHANGED <<visited, queue, current_marking, idx, next_marking,
                   variant, first_result, removed>>
    /\ UNCHANGED <<argv_len, parser_found, parse_outcome, exit_code>>
    /\ UNCHANGED adapterVars

\* lines 116-124: the engine has returned; the count and the markings are
\* printed, main returns and the interpreter exits with status 0
MainReport ==
    /\ mpc = "search"
    /\ pc = "done"
    /\ printed' = printed \o <<"count", "listing">>
    /\ exit_code' = 0
    /\ mpc' = "exit"
    /\ UNCHANGED <<argv_len, parser_found, parse_outcome>>
    /\ UNCHANGED <<engineVars, adapterVars>>

NextMain ==
    \/ ImportOK
    \/ ImportFails
    \/ UsageError
    \/ StartParsing
    \/ ParseOK
    \/ ParseFails
    \/ ParseRaises
    \/ MainConvert
    \/ AdStart
    \/ AdArcPre
    \/ AdArcPost
    \/ AdArcIgnore
    \/ AdReturn
    \/ MainSearch
    \/ Call
    \/ Dequeue
    \/ Skip
    \/ Fire
    \/ DedupNew
    \/ DedupSeen
    \/ EndFor
    \/ Return
    \/ MainReport

SpecMain == InitMain /\ [][NextMain]_vars

\* --------------------------------------------------- reference semantics
\* The net's firing relation as the glossary defines it, place by place: a
\* transition may fire at m when every precondition place holds a token, and
\* firing leaves a token exactly on the postcondition places and on the places
\* of m outside the precondition.
MayFire(t, m) == \A p \in t.pre : p \in m

Fired(t, m) == {p \in Places : p \in t.post \/ (p \in m /\ p \notin t.pre)}

Successors(tbl, m) == {Fired(tbl[i], m) : i \in {j \in DOMAIN tbl : MayFire(tbl[j], m)}}

RECURSIVE ReachWithin(_, _, _)
ReachWithin(m0, tbl, k) ==
    IF k = 0 THEN {m0}
    ELSE LET R == ReachWithin(m0, tbl, k - 1)
         IN  R \cup UNION {Successors(tbl, m) : m \in R}

\* every reachable marking is reached by fewer firings than there are markings
Reachable(m0, tbl) == ReachWithin(m0, tbl, Cardinality(Markings))

Returned == pc = "done" /\ Discipline = "fifo"

\* the transition the for loop is at
Item == all_transitions[idx]

\* ------------------------------------------------------------------ claims

\* C1: the set the engine returns is exactly the set of markings obtainable
\* from the initial marking by zero or more firings of enabled transitions.
C1_ExactlyReachable ==
    Returned => visited = Reachable(start_marking, all_transitions)

\* a first call has returned three or more markings, and not every marking
C1_Witness ==
    /\ Returned
    /\ variant = "first"
    /\ Cardinality(visited) >= 3
    /\ visited # Markings

\* C2: every call of the engine reaches the empty frontier queue and returns.
C2_Terminates ==
    (pc \in {"call", "while", "for", "dedup"}) ~> (pc = "done" /\ queue = <<>>)

\* a call has returned on a table with a cycle: from the initial marking a
\* firing leads to another marking and a firing leads back
C2_Witness ==
    /\ pc = "done"
    /\ queue = <<>>
    /\ \E m \in Successors(all_transitions, start_marking) :
         /\ m # start_marking
         /\ start_marking \in Successors(all_transitions, m)

\* the places named by the initial marking or by some pre or post set
Referenced(m0, tbl) ==
    m0 \cup UNION {tbl[i].pre \cup tbl[i].post : i \in DOMAIN tbl}

RECURSIVE Pow2(_)
Pow2(n) == IF n = 0 THEN 1 ELSE 2 * Pow2(n - 1)

\* C3: every visited marking is a set of places referenced in the net, so
\* visited never holds more than 2^(number of referenced places) markings.
C3_VisitedBounded ==
    pc \in {"while", "for", "dedup", "done"} =>
        LET R == Referenced(start_marking, all_transitions)
        IN  /\ \A m \in visited : m \subseteq R
            /\ Cardinality(visited) <= Pow2(Cardinality(R))

\* a run that has found several markings while some place is referenced nowhere
C3_Witness ==
    /\ pc = "done"
    /\ Cardinality(visited) >= 3
    /\ Referenced(start_marking, all_transitions) # Places

\* C4: the returned set is the same for every iteration order of the table.
C4_OrderIndependent ==
    (pc = "done" /\ variant = "permuted") => visited = first_result

\* a permuted call has returned where the two transitions are both enabled at
\* the initial marking and lead to different markings
C4_Witness ==
    /\ pc = "done"
    /\ variant = "permuted"
    /\ Cardinality(Successors(all_transitions, start_marking)) >= 2
    /\ Cardinality(visited) >= 3

\* C5: expanding the pending markings in any order instead of first-in
\* first-out returns the same set as the engine.
C5_DisciplineIndependent ==
    (pc = "done" /\ variant = "any") => visited = first_result

\* an arbitrary-pick call is under way and has just taken a marking that was
\* not at the head of the deque
C5_Witness ==
    /\ variant = "any"
    /\ pc = "for"
    /\ idx = 1
    /\ queue # <<>>
    /\ \E m \in visited \ {current_marking} :
         /\ m \in {queue[i] : i \in DOMAIN queue}
         /\ current_marking \notin Successors(all_transitions, start_marking)
         /\ m \in Successors(all_transitions, start_marking)

\* C6: the successor computed for a fired transition has no token on a place
\* that is only in the precondition, a token on every postcondition place,
\* and elsewhere the tokens of the dequeued marking.
C6_FiringRule ==
    (pc = "dedup" /\ Discipline = "fifo") =>
        \A p \in Places :
            /\ (p \in Item.pre /\ p \notin Item.post) => p \notin next_marking
            /\ p \in Item.post => p \in next_marking
            /\ (p \notin Item.pre /\ p \notin Item.post) =>
                   (p \in next_marking <=> p \in current_marking)

\* a transition has fired that has a place in both its sets, a postcondition
\* place that was already marked, and a place in neither set
C6_Witness ==
    /\ pc = "dedup"
    /\ Discipline = "fifo"
    /\ Item.pre \cap Item.post # {}
    /\ (Item.post \ Item.pre) \cap current_marking # {}
    /\ Places \ (Item.pre \cup Item.post) # {}

\* C7: a transition is fired at a dequeued marking iff its precondition is a
\* subset of it: a fired one is enabled, every enabled one the loop has passed
\* has its successor in visited, and when the call returns a transition with
\* an empty precondition has added its postcondition to a successor of every
\* returned marking.
C7_FiredIffEnabled ==
    /\ (pc = "dedup" /\ Discipline = "fifo") => MayFire(Item, current_marking)
    /\ (pc = "for" /\ Discipline = "fifo") =>
           \A j \in 1..(idx - 1) :
               MayFire(all_transitions[j], current_marking) =>
                   Fired(all_transitions[j], current_marking) \in visited
    /\ Returned =>
           \A i \in DOMAIN all_transitions : \A m \in visited :
               all_transitions[i].pre = {} =>
                   \E n \in visited : /\ n \in Successors(all_transitions, m)
                                      /\ all_transitions[i].post \subseteq n

\* a call has returned on a table with an empty-precondition transition whose
\* postcondition is not marked initially
C7_Witness ==
    /\ Returned
    /\ \E i \in DOMAIN all_transitions :
         /\ all_transitions[i].pre = {}
         /\ all_transitions[i].post \ start_marking # {}
    /\ Cardinality(visited) >= 2

\* the precondition of t is a subset of no marking of the set
NeverEnabled(t, markings) == \A m \in markings : ~MayFire(t, m)

\* C8: a transition whose precondition is a subset of no discovered marking
\* never fires, and the table without it returns the same set.
C8_NeverEnabledInert ==
    /\ (pc = "dedup" /\ Discipline = "fifo") => ~NeverEnabled(Item, visited)
    /\ (pc = "done" /\ variant = "removed" /\ NeverEnabled(removed[1], first_result))
           => visited = first_result

\* the call without a never-enabled transition has returned; the transition
\* has a marked and an unmarked precondition place and a postcondition, as in
\* Scenario D
C8_Witness ==
    /\ pc = "done"
    /\ variant = "removed"
    /\ NeverEnabled(removed[1], first_result)
    /\ removed[1].pre \cap start_marking # {}
    /\ removed[1].pre \ start_marking # {}
    /\ removed[1].post # {}

\* the declared transitions, as a set
DeclaredTransitions == {net_transitions[i] : i \in DOMAIN net_transitions}

SomeArc(source_id, target_id) ==
    \E k \in DOMAIN net_arcs :
        net_arcs[k].source = source_id /\ net_arcs[k].target = target_id

\* C9: the adapter returns the places with an initial count above zero as the
\* initial marking, and a table with one entry per declared transition in
\* which a place is in the precondition iff an arc goes from it to the
\* transition and in the postcondition iff an arc goes from the transition to
\* it.
C9_AdapterOutput ==
    apc = "returned" =>
        /\ initial_marking_set =
               {p \in DOMAIN net_places : net_places[p].initial_marking >= 1}
        /\ Len(transitions_dict) = Len(net_transitions)
        /\ \A t \in DeclaredTransitions :
               Cardinality({i \in DOMAIN transitions_dict :
                               transitions_dict[i].id = t}) = 1
        /\ \A i \in DOMAIN transitions_dict : \A p \in DOMAIN net_places :
               /\ p \in transitions_dict[i].pre
                      <=> SomeArc(p, transitions_dict[i].id)
               /\ p \in transitions_dict[i].post
                      <=> SomeArc(transitions_dict[i].id, p)

\* the adapter has returned for a net with a place holding two tokens, an
\* empty place, a transition with a precondition and a postcondition, and a
\* transition no arc touches
C9_Witness ==
    /\ apc = "returned"
    /\ ad_variant = "first"
    /\ \E p, q \in DOMAIN net_places :
         net_places[p].initial_marking = 2 /\ net_places[q].initial_marking = 0
    /\ \E i, j \in DOMAIN transitions_dict :
         /\ transitions_dict[i].pre # {}
         /\ transitions_dict[i].post # {}
         /\ transitions_dict[j].pre = {}
         /\ transitions_dict[j].post = {}

\* C10: an arc that connects no place with a transition raises no error and
\* leaves the adapter's output as it is for the net without the arc.
C10_StrayArcIgnored ==
    /\ apc # "KeyError"
    /\ (apc = "returned" /\ ad_variant = "without") =>
           <<initial_marking_set, transitions_dict>> = ad_first

\* the adapter has returned for a net without an arc between two places, and
\* the net has an arc that does connect
C10_Witness ==
    /\ apc = "returned"
    /\ ad_variant = "without"
    /\ ad_dropped[1].source \in DOMAIN net_places
    /\ ad_dropped[1].target \in DOMAIN net_places
    /\ \E i \in DOMAIN transitions_dict : transitions_dict[i].pre # {}

\* C11: the initial marking is in the returned set, and the returned set is
\* the initial marking alone when the table is empty or enables nothing at it.
C11_InitialMarkingReturned ==
    pc = "done" =>
        /\ start_marking \in visited
        /\ (\A i \in DOMAIN all_transitions :
                ~MayFire(all_transitions[i], start_marking))
               => visited = {start_marking}

\* a call has returned on a table of two transitions with preconditions and
\* postconditions, none of them enabled at the initial marking
C11_Witness ==
    /\ pc = "done"
    /\ Len(all_transitions) = 2
    /\ \A i \in DOMAIN all_transitions :
         /\ ~MayFire(all_transitions[i], start_marking)
         /\ all_transitions[i].pre \cup all_transitions[i].post # {}
    /\ \E i \in DOMAIN all_transitions : all_transitions[i].post # {}
    /\ visited = {start_marking}

\* C12: a second call on the same input returns the set the first call
\* returned, and every later call starts from the initial marking alone,
\* whatever the call before it left behind.
C12_RunsIndependent ==
    /\ (pc = "done" /\ variant = "same") => visited = first_result
    /\ (pc = "while" /\ variant # "first" /\ current_marking = Unbound) =>
           /\ visited = {start_marking}
           /\ queue = <<start_marking>>

\* the second call on the same input has returned three or more markings
C12_Witness ==
    /\ pc = "done"
    /\ variant = "same"
    /\ Cardinality(first_result) >= 3

\* the markings pending in a deque
Pending(q) == {q[i] : i \in DOMAIN q}

NoDuplicates(q) == \A i, j \in DOMAIN q : i # j => q[i] # q[j]

\* C14: a marking is appended to the frontier queue at most once: the queue
\* never holds a marking twice, a marking that has left the queue never
\* comes back, and a successor that is already visited leaves the queue as
\* it is.
C14_EnqueuedOnce ==
    [][/\ NoDuplicates(queue')
       /\ \A m \in visited : m \notin Pending(queue) => m \notin Pending(queue')
       /\ (pc = "dedup" /\ next_marking \in visited) => queue' = queue]_vars

\* the successor of the marking being expanded was that marking itself and
\* the loop has moved on, with other markings pending
C14_Witness ==
    /\ pc = "for"
    /\ idx > 1
    /\ next_marking = current_marking
    /\ queue # <<>>
    /\ Cardinality(visited) >= 3

\* C15: no step of a run removes a marking from visited.
C15_VisitedGrows == [][visited \subseteq visited']_vars

\* visited has grown twice beyond the initial marking
C15_Witness ==
    /\ pc = "for"
    /\ start_marking \in visited
    /\ Cardinality(visited) >= 3

\* C16: between iterations of the while loop every pending marking is
\* visited and every visited marking that is not pending has all its
\* successors in visited; at return visited is closed under firing.
C16_WorklistInvariant ==
    /\ pc = "while" =>
           /\ Pending(queue) \subseteq visited
           /\ \A m \in visited \ Pending(queue) :
                  Successors(all_transitions, m) \subseteq visited
    /\ pc = "done" =>
           \A m \in visited : Successors(all_transitions, m) \subseteq visited

\* between two iterations, with two markings expanded that have successors
\* and a marking still pending
C16_Witness ==
    /\ pc = "while"
    /\ queue # <<>>
    /\ Cardinality({m \in visited \ Pending(queue) :
                       Successors(all_transitions, m) \ {m} # {}}) >= 2

\* the least number of firings that lead from m0 to the reachable marking m
Distance(m0, tbl, m) ==
    CHOOSE k \in 0..Cardinality(Markings) :
        /\ m \in ReachWithin(m0, tbl, k)
        /\ \A j \in 0..(k - 1) : m \notin ReachWithin(m0, tbl, j)

D(m) == Distance(start_marking, all_transitions, m)

\* C17: the marking dequeued is the one discovered earliest, its distance
\* from the initial marking is not below that of the marking dequeued before
\* it, and a marking is discovered one firing beyond the distance of the
\* marking being expanded, which is its own distance.
C17_BreadthFirst ==
    [][/\ (pc = "while" /\ pc' = "for") =>
              /\ current_marking' = Head(queue)
              /\ current_marking # Unbound => D(current_marking') >= D(current_marking)
       /\ (pc = "dedup" /\ visited' # visited) =>
              /\ queue' = Append(queue, next_marking)
              /\ D(next_marking) = D(current_marking) + 1]_vars

\* a marking two firings away is being expanded while another is pending
C17_Witness ==
    /\ pc = "for"
    /\ D(current_marking) >= 2
    /\ queue # <<>>

\* C18: no step of the engine changes the caller's start_marking or any pre
\* or post set of the table.
C18_InputsUnchanged ==
    [][/\ start_marking' = start_marking
       /\ all_transitions' = all_transitions]_vars

\* a transition with a precondition and a postcondition has fired and moved
\* tokens
C18_Witness ==
    /\ pc = "dedup"
    /\ Item.pre # {}
    /\ Item.post # {}
    /\ next_marking # current_marking
    /\ current_marking \ Item.pre # {}

\* the places that hold a token initially or are in some postcondition
Markable(m0, tbl) == m0 \cup UNION {tbl[i].post : i \in DOMAIN tbl}

\* C20: a place that is neither marked initially nor in any postcondition
\* holds no token in any visited marking.
C20_OnlyMarkablePlaces ==
    pc \in {"while", "for", "dedup", "done"} =>
        \A m \in visited : m \subseteq Markable(start_marking, all_transitions)

\* a call has returned several markings on a table with a precondition
\* place that is neither marked initially nor in a postcondition
C20_Witness ==
    /\ pc = "done"
    /\ Cardinality(visited) >= 2
    /\ \E i \in DOMAIN all_transitions :
         all_transitions[i].pre \ Markable(start_marking, all_transitions) # {}

CoreEntered == apc # "idle" \/ pc # "idle"

Said(what) == \E i \in DOMAIN printed : printed[i] = what

\* C13: the adapter and the engine are entered only with the parser loaded,
\* exactly one argument and a parsed net; a missing parser, a wrong argument
\* count and a parse error each end the process with a message and a
\* non-zero status before any core work; status zero comes only after the
\* engine has returned and the count and the listing are printed.
C13_ExitBehaviour ==
    /\ CoreEntered =>
           parser_found /\ argv_len = 2 /\ parse_outcome = "ok"
    /\ (mpc = "exit" /\
          (~parser_found \/ argv_len # 2 \/ parse_outcome = "PNMLParserError")) =>
           /\ exit_code > 0
           /\ printed # <<>>
           /\ ~CoreEntered
    /\ mpc # "exit" => exit_code = -1
    /\ exit_code = 0 =>
           /\ mpc = "exit"
           /\ pc = "done"
           /\ Said("count") /\ Said("listing")
           /\ printed[Len(printed)] = "listing"

\* the process has exited with status zero after a search that found
\* several markings
C13_Witness ==
    /\ mpc = "exit"
    /\ exit_code = 0
    /\ Cardinality(visited) >= 2
    /\ Said("listing")

TypeOK ==
    /\ start_marking \in Markings
    /\ pc \in {"idle", "call", "while", "for", "dedup", "done"}
    /\ variant \in {"first", "same", "permuted", "any", "removed"}
    /\ idx \in 0..(MaxTrans + 1)
    /\ pc # "call" => visited \subseteq Markings
====
